---- MODULE Spec2Model ----
(***************************************************************************)
(* Model of the document-batch analysis pipeline of src/main.py:           *)
(* extract_all_files -> create_batches -> process_batch per batch ->        *)
(* synthesize_reports, with call_openrouter as the generation client.      *)
(*                                                                         *)
(* Texts are sequences of word tokens; a substring test of the source is   *)
(* a contiguous-subsequence test on tokens, str.lower() is a per-token map.*)
(* File and document contents are modelled by their length in characters.  *)
(***************************************************************************)
EXTENDS Integers, Sequences, FiniteSets, TLC

(***************************************************************************)
(* Program constants                                                       *)
(***************************************************************************)
BATCH_SIZE == 5
MAX_CONTENT_PER_FILE == 20000
BatchContentCap == 15000
PromptContentCap == 12000
SynthesisCeiling == 35000
MinNumbers == 3
MinKeywords == 5

(***************************************************************************)
(* Bounds of the model                                                     *)
(***************************************************************************)
MaxFiles == 12
MaxMixed == 3
MaxLen == 12
MaxBatchSize == 6
MaxUploadLen == 3

(***************************************************************************)
(* Generic helpers                                                         *)
(***************************************************************************)
Min(a, b) == IF a < b THEN a ELSE b

Range(s) == {s[i] : i \in 1..Len(s)}

\* sub occurs in s as a contiguous run of tokens (Python: sub in s)
Contains(s, sub) ==
    \E i \in 0..(Len(s) - Len(sub)) :
        \A j \in 1..Len(sub) : s[i + j] = sub[j]

(***************************************************************************)
(* str.lower()                                                             *)
(***************************************************************************)
ToLowerTable ==
    ("I" :> "i") @@ ("Once" :> "once") @@ ("Here's" :> "here's") @@
    ("This" :> "this") @@ ("You'll" :> "you'll") @@ ("Revenue" :> "revenue") @@
    ("March" :> "march") @@ ("$5M" :> "$5m") @@ ("$3.2B" :> "$3.2b") @@
    ("ERROR:" :> "error:") @@ ("All" :> "all") @@ ("AI" :> "ai") @@
    (".PDF" :> ".pdf") @@ (".ZIP" :> ".zip")

LowerToken(t) == IF t \in DOMAIN ToLowerTable THEN ToLowerTable[t] ELSE t

Lower(s) == [i \in 1..Len(s) |-> LowerToken(s[i])]

(***************************************************************************)
(* The quality gate: template phrases of call_openrouter and               *)
(* has_actual_content                                                      *)
(***************************************************************************)
template_phrases ==
    { <<"I", "can", "help", "you", "structure">>,
      <<"Once", "you", "provide">>,
      <<"Here's", "a", "framework">>,
      <<"This", "is", "a", "great", "framework">>,
      <<"breakdown", "of", "how", "to", "approach">>,
      <<"You'll", "need", "to", "pull", "from">>,
      <<"incorporating", "the", "specific", "data">>,
      <<"placeholder", "for">>,
      <<"template", "for">>,
      <<"framework", "for">> }

\* any(phrase.lower() in content.lower() for phrase in template_phrases)
ContainsTemplate(content) ==
    \E phrase \in template_phrases : Contains(Lower(content), Lower(phrase))

\* tokens of the lower-cased text that number_pattern matches on their own
CurrencyTokens == {"$5m", "$120", "$3.2b", "$40", "$7"}
PercentTokens == {"12%", "7.5%"}
DateTokens == {"2023-01-15"}
MonthTokens == {"jan", "march"}
YearTokens == {"2023", "2024"}

\* len(re.findall(number_pattern, text.lower()))
numbers_found(text) ==
    LET low == Lower(text)
    IN  Cardinality({ i \in 1..Len(low) :
            \/ low[i] \in CurrencyTokens \cup PercentTokens \cup DateTokens
            \/ /\ low[i] \in MonthTokens
               /\ i < Len(low)
               /\ low[i + 1] \in YearTokens })

gate_template_phrases ==
    { <<"you'll", "need", "to">>, <<"placeholder">>, <<"template">>,
      <<"framework">>, <<"breakdown", "of", "how">>,
      <<"incorporating", "the", "specific">>, <<"this", "is", "a", "great">> }

template_count(text) ==
    Cardinality({ phrase \in gate_template_phrases : Contains(Lower(text), phrase) })

analysis_indicators ==
    { "revenue", "profit", "margin", "cash", "debt", "assets",
      "liabilities", "growth", "decline", "increase", "decrease" }

analysis_count(text) ==
    Cardinality({ word \in analysis_indicators : Contains(Lower(text), <<word>>) })

\* the gate with both minimums one higher
has_actual_content_strict(text) ==
    /\ numbers_found(text) > MinNumbers
    /\ template_count(text) = 0
    /\ analysis_count(text) > MinKeywords

has_actual_content(text) ==
    /\ numbers_found(text) >= MinNumbers
    /\ template_count(text) = 0
    /\ analysis_count(text) >= MinKeywords

(***************************************************************************)
(* Values                                                                  *)
(***************************************************************************)
\* Python None for a text length, and an optional text
NoneLen == -1

None == [none |-> TRUE, text |-> <<>>]

Some(t) == [none |-> FALSE, text |-> t]

\* Python truthiness of an optional text / of a text length
Truthy(v) == ~v.none /\ v.text # <<>>

TruthyLen(n) == n > 0

ERROR_MESSAGE ==
    <<"ERROR:", "All", "AI", "models", "failed", "to", "provide", "actual", "analysis">>

dd_type == "M&A Due Diligence"
report_focus == "Financial Report"

batch_models ==
    << "meta-llama/llama-3.1-8b-instruct:free",
       "google/gemma-2-9b-it:free",
       "microsoft/phi-3-mini-128k-instruct:free" >>

better_models ==
    << "meta-llama/llama-3.1-70b-instruct:free",
       "google/gemini-pro-1.5-exp",
       "anthropic/claude-3.5-sonnet:free",
       "meta-llama/llama-3.1-8b-instruct:free" >>

ModelsFor(use_better_models) ==
    IF use_better_models THEN better_models ELSE batch_models

(***************************************************************************)
(* What a backend can answer                                               *)
(***************************************************************************)
GoodA == <<"Revenue", "$5M", "profit", "12%", "margin", "cash", "2023-01-15", "debt">>

GoodB ==
    <<"revenue", "$120", "growth", "7.5%", "assets", "liabilities",
      "March", "2023", "decline", "$3.2B", "increase">>

\* a template phrase of call_openrouter, in another case, with 5 numeric
\* tokens and 5 keywords
TemplateRich ==
    <<"here's", "a", "framework", "revenue", "$5M", "profit", "12%", "margin",
      "$120", "cash", "7.5%", "debt", "2023-01-15">>

\* a template phrase that only call_openrouter's list knows
OnceRich == <<"once", "you", "provide">> \o GoodA

\* a word that only has_actual_content's list knows
FrameworkWord == <<"our", "framework">> \o GoodA

FewNumbers == <<"revenue", "$5M", "profit", "12%", "margin", "cash", "debt">>

FewKeywords == <<"revenue", "$5M", "profit", "12%", "margin", "cash", "2023-01-15">>

Texts ==
    { GoodA, GoodB, TemplateRich, OnceRich, FrameworkWord, FewNumbers,
      FewKeywords, <<>> }

\* requests.post raised (timeout, connection), a non-200 status, a 200 body
\* without choices, or a 200 body with a generated text
Responses ==
    { [raised |-> TRUE, status |-> 0, choices |-> FALSE, content |-> <<>>] }
    \cup { [raised |-> FALSE, status |-> st, choices |-> FALSE, content |-> <<>>] :
             st \in {200, 402, 500} }
    \cup { [raised |-> FALSE, status |-> 200, choices |-> TRUE, content |-> t] :
             t \in Texts }

\* the loop iteration without the template-phrase check
OutcomeNoTemplateCheck(r) ==
    IF r.raised THEN "error"
    ELSE IF r.status = 200
         THEN IF r.choices
              THEN IF has_actual_content(r.content) THEN "accepted" ELSE "rejected"
              ELSE "error"
         ELSE "error"

\* one iteration of the loop over models: "accepted" returns the content,
\* "rejected" and "error" continue with the next model
Outcome(r) ==
    IF r.raised THEN "error"
    ELSE IF r.status = 200
         THEN IF r.choices
              THEN IF ContainsTemplate(r.content) THEN "rejected"
                   ELSE IF has_actual_content(r.content) THEN "accepted"
                   ELSE "rejected"
              ELSE "error"
         ELSE "error"

\* before the first requests.post of a call
NoBackendResponse == [raised |-> FALSE, status |-> 0, choices |-> FALSE, content |-> <<>>]

\* the outcome of every response, computed once
OutcomeOf == [r \in Responses |-> Outcome(r)]

(***************************************************************************)
(* Uploads and extraction                                                  *)
(***************************************************************************)
Name(d, b, e) == [dir |-> d, base |-> b, ext |-> e]

EmptyName == Name("", "", "")

\* file.filename.lower().endswith(suffix)
EndsWith(name, suffix) == LowerToken(name.ext) = suffix

\* os.path.basename
Basename(name) == Name("", name.base, name.ext)

\* a filter that lets every entry that is not a directory through
SkipEntryDirsOnly(e) == e.is_dir

\* if file_info.is_dir() or not file_info.filename.lower().endswith('.pdf'): continue
SkipEntry(e) == e.is_dir \/ ~EndsWith(e.filename, ".pdf")

\* extract_zip_file: the (name, text) pairs of the readable .pdf entries
RECURSIVE ExtractEntries(_)
ExtractEntries(entries) ==
    IF entries = <<>> THEN <<>>
    ELSE LET e == Head(entries)
             rest == ExtractEntries(Tail(entries))
         IN  IF SkipEntry(e) THEN rest
             ELSE IF ~e.readable THEN rest
             ELSE <<[filename |-> Basename(e.filename), text |-> e.pdf_text]>> \o rest

extract_zip_file(file) ==
    IF file.zip_ok THEN ExtractEntries(file.entries) ELSE <<>>

\* a document for every pair, with or without text
DocsOfKeepsEmpty(pairs) ==
    [i \in 1..Len(pairs) |->
        [filename |-> pairs[i].filename,
         content |-> Min(pairs[i].text, MAX_CONTENT_PER_FILE)]]

\* the documents of a list of (name, text) pairs
RECURSIVE DocsOf(_)
DocsOf(pairs) ==
    IF pairs = <<>> THEN <<>>
    ELSE LET p == Head(pairs)
         IN  (IF TruthyLen(p.text)
              THEN <<[filename |-> p.filename,
                      content |-> Min(p.text, MAX_CONTENT_PER_FILE)]>>
              ELSE <<>>) \o DocsOf(Tail(pairs))

NamesOf(pairs) == [i \in 1..Len(pairs) |-> pairs[i].filename]

\* extract_all_files: [docs |-> all_documents, names |-> uploaded_files]
RECURSIVE extract_all_files(_)
extract_all_files(fs) ==
    IF fs = <<>> THEN [docs |-> <<>>, names |-> <<>>]
    ELSE LET file == Head(fs)
             rest == extract_all_files(Tail(fs))
             pairs == IF file.filename = EmptyName THEN <<>>
                      ELSE IF EndsWith(file.filename, ".zip")
                           THEN extract_zip_file(file)
                           ELSE <<[filename |-> file.filename, text |-> file.pdf_text]>>
         IN  [docs |-> DocsOf(pairs) \o rest.docs,
              names |-> NamesOf(pairs) \o rest.names]

(***************************************************************************)
(* create_batches                                                          *)
(***************************************************************************)
\* a slice that stops one document early
SliceShort(documents, i, j) == SubSeq(documents, i + 1, Min(j, Len(documents)) - 1)

\* documents[i:i + batch_size] with 0-based i
Slice(documents, i, j) == SubSeq(documents, i + 1, Min(j, Len(documents)))

RECURSIVE BatchesFrom(_, _, _)
BatchesFrom(documents, batch_size, i) ==
    IF i >= Len(documents) THEN <<>>
    ELSE <<Slice(documents, i, i + batch_size)>>
         \o BatchesFrom(documents, batch_size, i + batch_size)

create_batches(documents, batch_size) == BatchesFrom(documents, batch_size, 0)

(***************************************************************************)
(* Report assembly of synthesize_reports                                   *)
(***************************************************************************)
\* a header whose batch count is taken from the file names
HeaderCountsFiles(reports, names, with_synthesis) ==
    [total_files |-> Len(names),
     batches |-> Len(names),
     ai_synthesis |-> with_synthesis,
     report_type |-> <<dd_type, report_focus>>]

\* the header lines: file count, batch count, report type
Header(reports, names, with_synthesis) ==
    [total_files |-> Len(names),
     batches |-> Len(reports),
     ai_synthesis |-> with_synthesis,
     report_type |-> <<dd_type, report_focus>>]

NoHeader ==
    [total_files |-> 0, batches |-> 0, ai_synthesis |-> FALSE,
     report_type |-> <<"", "">>]

NoReport == [header |-> NoHeader, body |-> <<>>]

\* the body of the except branch: every batch report under its own heading
RECURSIVE Combined(_)
Combined(reports) ==
    IF reports = <<>> THEN <<>>
    ELSE LET br == Head(reports)
         IN  <<"##", "Batch", ToString(br.batch_number), "Analysis">>
             \o br.report \o Combined(Tail(reports))

(***************************************************************************)
(* Prompts                                                                 *)
(***************************************************************************)
\* the documents as create_batch_prompt embeds them: process_batch copies
\* each document with content[:15000], the prompt takes content[:12000]
BatchPromptDocs(batch_docs) ==
    [i \in 1..Len(batch_docs) |->
        [filename |-> batch_docs[i].filename,
         content |-> Min(Min(batch_docs[i].content, BatchContentCap), PromptContentCap)]]

\* number of characters of a file name
NameChars(name) == Len(name.dir) + Len(name.base) + Len(name.ext)

\* number of characters of ', '.join(names)
RECURSIVE JoinChars(_)
JoinChars(names) ==
    IF names = <<>> THEN 0
    ELSE NameChars(Head(names))
         + (IF Len(names) > 1 THEN Len(", ") ELSE 0)
         + JoinChars(Tail(names))

\* number of characters the sample texts stand for; the error string has
\* the length it has in the source
ReportChars ==
    (GoodA :> 12000) @@ (GoodB :> 16000) @@ (ERROR_MESSAGE :> 108)

CharLen(text) == IF text \in DOMAIN ReportChars THEN ReportChars[text] ELSE Len(text)

\* what one batch report adds to synthesis_content
SectionChars(br) ==
    (1 + 60 + 1)
    + Len("BATCH ") + Len(ToString(br.batch_number)) + Len(" ANALYSIS") + 1
    + Len("Files: ") + JoinChars(SubSeq(br.files, 1, Min(3, Len(br.files))))
    + (IF Len(br.files) > 3
       THEN Len(" + ") + Len(ToString(Len(br.files) - 3)) + Len(" more")
       ELSE 0)
    + (1 + 60 + 2)
    + CharLen(br.report)
    + 2

RECURSIVE SectionsChars(_)
SectionsChars(reports) ==
    IF reports = <<>> THEN 0
    ELSE SectionChars(Head(reports)) + SectionsChars(Tail(reports))

\* len(synthesis_content) before the ceiling is applied
SynthesisChars(reports, names) ==
    Len("SYNTHESIS OF ") + Len(ToString(Len(reports))) + Len(" BATCH ANALYSES") + 2
    + Len("Total Documents Analyzed: ") + Len(ToString(Len(names))) + 2
    + SectionsChars(reports)

TruncationMarker == "[Additional content available in batch reports...]"

\* the ceiling without the cut
TruncateKeepsAll(n) ==
    IF n > SynthesisCeiling
    THEN [kept |-> n, marker |-> TRUE]
    ELSE [kept |-> n, marker |-> FALSE]

\* if len(synthesis_content) > 35000: the first 35000 characters and the marker
Truncate(n) ==
    IF n > SynthesisCeiling
    THEN [kept |-> SynthesisCeiling, marker |-> TRUE]
    ELSE [kept |-> n, marker |-> FALSE]

\* number of characters of the content handed to create_synthesis_prompt
ContentChars(c) == c.kept + (IF c.marker THEN 2 + Len(TruncationMarker) ELSE 0)

NoPrompt == [batch_docs |-> <<>>, synthesis_content |-> [kept |-> 0, marker |-> FALSE]]

(***************************************************************************)
(* State                                                                   *)
(***************************************************************************)
VARIABLES
    openrouter_key,   \* whether OPENROUTER_API_KEY is set
    files,            \* request.files.getlist('files')
    pc,               \* position of the request in analyze
    all_documents,
    uploaded_files,
    batch_size,       \* batch size handed to create_batches
    batches,
    batch_num,        \* 1-based number of the batch the loop is at
    batch_reports,
    caller,           \* who is inside call_openrouter: "batch", "synthesis", "none"
    models,           \* priority list of the current call_openrouter call
    attempts,         \* [model, outcome] of every model tried in the current call
    result,           \* return value of call_openrouter
    calls,            \* requests.post calls made during the request
    backend_response, \* what the last requests.post of the current call yielded
    prompt,           \* what the prompt of the current call embeds
    invocations,      \* [caller, batch] of every call_openrouter call of the request
    final_report,
    response          \* what analyze returns to the caller

vars ==
    << openrouter_key, files, pc, all_documents, uploaded_files, batch_size,
       batches, batch_num, batch_reports, caller, models, attempts, result,
       calls, backend_response, prompt, invocations, final_report, response >>

NoResponse ==
    [status |-> 0, error |-> "", report |-> NoReport, uploaded_files |-> <<>>,
     total_files |-> 0, batches_processed |-> 0]

ErrorResponse(code, msg) ==
    [status |-> code, error |-> msg, report |-> NoReport, uploaded_files |-> <<>>,
     total_files |-> 0, batches_processed |-> 0]

(***************************************************************************)
(* Uploads the request starts from                                         *)
(***************************************************************************)
\* length of the text PyPDF2 yields for the i-th readable upload
RawLength(i) ==
    LET ls == <<1, MAX_CONTENT_PER_FILE, MAX_CONTENT_PER_FILE + 1, 30000>>
    IN  ls[(i % 4) + 1]

GoodFile(i) ==
    [filename |-> Name("", ToString(i), ".pdf"), pdf_text |-> RawLength(i),
     zip_ok |-> FALSE, entries |-> <<>>]

BadKinds == {"noname", "none", "empty"}

\* an upload without a filename, one whose extraction raises, one without text
BadFile(i, kind) ==
    [filename |-> IF kind = "noname" THEN EmptyName ELSE Name("", ToString(i), ".pdf"),
     pdf_text |-> IF kind = "none" THEN NoneLen ELSE IF kind = "empty" THEN 0 ELSE RawLength(i),
     zip_ok |-> FALSE, entries |-> <<>>]

Entry(name, dir, readable, text) ==
    [filename |-> name, is_dir |-> dir, readable |-> readable, pdf_text |-> text]

\* an archive of two readable PDFs, one of them in a folder and with an
\* upper-case extension, and one entry that is not a PDF
ZipOfTwo(i) ==
    [filename |-> Name("", ToString(i), ".zip"), pdf_text |-> NoneLen, zip_ok |-> TRUE,
     entries |-> << Entry(Name("", ToString(10 * i + 1), ".pdf"), FALSE, TRUE, RawLength(i)),
                    Entry(Name("", ToString(10 * i + 2), ".txt"), FALSE, TRUE, RawLength(i)),
                    Entry(Name("docs/", ToString(10 * i + 3), ".PDF"), FALSE, TRUE, RawLength(i + 1)) >>]

\* an archive with a folder entry, a PDF entry whose read raises, one whose
\* extraction returns None, one without text and a readable one
ZipOfMany(i) ==
    [filename |-> Name("", ToString(i), ".ZIP"), pdf_text |-> NoneLen, zip_ok |-> TRUE,
     entries |-> << Entry(Name("docs/", "", ""), TRUE, TRUE, NoneLen),
                    Entry(Name("docs/", ToString(10 * i + 4), ".pdf"), FALSE, FALSE, RawLength(i)),
                    Entry(Name("docs/", ToString(10 * i + 5), ".pdf"), FALSE, TRUE, NoneLen),
                    Entry(Name("docs/", ToString(10 * i + 6), ".pdf"), FALSE, TRUE, 0),
                    Entry(Name("docs/", ToString(10 * i + 7), ".pdf"), FALSE, TRUE, RawLength(i)) >>]

\* an archive zipfile.ZipFile cannot open
ZipBroken(i) ==
    [filename |-> Name("", ToString(i), ".zip"), pdf_text |-> NoneLen, zip_ok |-> FALSE,
     entries |-> <<>>]

FileKinds == BadKinds \cup {"pdf", "zip_two", "zip_many", "zip_broken"}

FileOfKind(i, kind) ==
    IF kind \in BadKinds THEN BadFile(i, kind)
    ELSE IF kind = "pdf" THEN GoodFile(i)
    ELSE IF kind = "zip_two" THEN ZipOfTwo(i)
    ELSE IF kind = "zip_many" THEN ZipOfMany(i)
    ELSE ZipBroken(i)

\* n uploads, those at the positions bad of the given kind
Upload(n, bad, kind) ==
    [i \in 1..n |-> IF i \in bad THEN BadFile(i, kind) ELSE GoodFile(i)]

\* every upload of readable files, and the small uploads with unreadable ones
Uploads ==
    { Upload(n, {}, "none") : n \in 0..MaxFiles }
    \cup { Upload(n, bad, kind) :
              n \in 1..MaxMixed, bad \in SUBSET (1..MaxMixed) \ {{}}, kind \in BadKinds }
    \cup { <<GoodFile(1), FileOfKind(2, kind)>> :
              kind \in {"zip_two", "zip_many", "zip_broken"} }

Init ==
    /\ openrouter_key \in BOOLEAN
    /\ files \in Uploads
    /\ pc = "start"
    /\ all_documents = <<>>
    /\ uploaded_files = <<>>
    /\ batch_size = BATCH_SIZE
    /\ batches = <<>>
    /\ batch_num = 0
    /\ batch_reports = <<>>
    /\ caller = "none"
    /\ models = <<>>
    /\ attempts = <<>>
    /\ result = None
    /\ calls = 0
    /\ backend_response = NoBackendResponse
    /\ prompt = NoPrompt
    /\ invocations = <<>>
    /\ final_report = NoReport
    /\ response = NoResponse

(***************************************************************************)
(* analyze                                                                 *)
(***************************************************************************)
Finish(r) ==
    /\ response' = r
    /\ pc' = "done"

\* if not openrouter_key: return 500
RejectNoKey ==
    /\ pc = "start"
    /\ ~openrouter_key
    /\ Finish(ErrorResponse(500, "OpenRouter API key not configured."))
    /\ UNCHANGED << openrouter_key, files, prompt, invocations, backend_response, all_documents, uploaded_files, batch_size,
                    batches, batch_num, batch_reports, caller, models, attempts,
                    result, calls, final_report >>

\* the check for files made before the check for the key
RejectNoFilesFirst ==
    /\ pc = "start"
    /\ files = <<>>
    /\ Finish(ErrorResponse(400, "No files uploaded"))
    /\ UNCHANGED << openrouter_key, files, prompt, invocations, backend_response, all_documents, uploaded_files, batch_size,
                    batches, batch_num, batch_reports, caller, models, attempts,
                    result, calls, final_report >>

\* if not files: return 400
RejectNoFiles ==
    /\ pc = "start"
    /\ openrouter_key
    /\ files = <<>>
    /\ Finish(ErrorResponse(400, "No files uploaded"))
    /\ UNCHANGED << openrouter_key, files, prompt, invocations, backend_response, all_documents, uploaded_files, batch_size,
                    batches, batch_num, batch_reports, caller, models, attempts,
                    result, calls, final_report >>

\* all_documents, uploaded_files = extract_all_files(files)
ExtractFiles ==
    /\ pc = "start"
    /\ openrouter_key
    /\ files # <<>>
    /\ LET x == extract_all_files(files)
       IN  /\ all_documents' = x.docs
           /\ uploaded_files' = x.names
    /\ pc' = "extracted"
    /\ UNCHANGED << openrouter_key, files, prompt, invocations, backend_response, batch_size, batches, batch_num,
                    batch_reports, caller, models, attempts, result, calls,
                    final_report, response >>

\* if not all_documents: return 400
RejectNoDocuments ==
    /\ pc = "extracted"
    /\ all_documents = <<>>
    /\ Finish(ErrorResponse(400, "Could not extract text from any files."))
    /\ UNCHANGED << openrouter_key, files, prompt, invocations, backend_response, all_documents, uploaded_files, batch_size,
                    batches, batch_num, batch_reports, caller, models, attempts,
                    result, calls, final_report >>

\* batching without the check for an empty document list
CreateBatchesUnguarded ==
    /\ pc = "extracted"
    /\ batches' = create_batches(all_documents, batch_size)
    /\ batch_reports' = <<>>
    /\ batch_num' = 1
    /\ pc' = "batch_loop"
    /\ UNCHANGED << openrouter_key, files, prompt, invocations, backend_response, all_documents, uploaded_files, batch_size,
                    caller, models, attempts, result, calls, final_report, response >>

\* batches = create_batches(all_documents, BATCH_SIZE); batch_reports = []
CreateBatches ==
    /\ pc = "extracted"
    /\ all_documents # <<>>
    /\ batches' = create_batches(all_documents, batch_size)
    /\ batch_reports' = <<>>
    /\ batch_num' = 1
    /\ pc' = "batch_loop"
    /\ UNCHANGED << openrouter_key, files, prompt, invocations, backend_response, all_documents, uploaded_files, batch_size,
                    caller, models, attempts, result, calls, final_report, response >>

(***************************************************************************)
(* process_batch, called by the loop over batches                          *)
(***************************************************************************)
\* what analyze does with the value process_batch returned
AfterBatch(batch_report) ==
    LET batch == batches[batch_num]
    IN  /\ batch_reports' =
               IF Truthy(batch_report)
               THEN Append(batch_reports,
                           [batch_number |-> batch_num,
                            file_count |-> Len(batch),
                            files |-> [i \in 1..Len(batch) |-> batch[i].filename],
                            report |-> batch_report.text])
               ELSE batch_reports
        /\ batch_num' = batch_num + 1

\* a process_batch that cuts the documents of its batch themselves
EnterProcessBatchInPlace ==
    /\ pc = "batch_loop"
    /\ batch_num <= Len(batches)
    /\ caller' = "batch"
    /\ models' = ModelsFor(FALSE)
    /\ attempts' = <<>>
    /\ pc' = "call"
    /\ backend_response' = NoBackendResponse
    /\ prompt' = [NoPrompt EXCEPT !.batch_docs = BatchPromptDocs(batches[batch_num])]
    /\ batches' = [batches EXCEPT ![batch_num] = BatchPromptDocs(batches[batch_num])]
    /\ invocations' = Append(invocations, [caller |-> "batch", batch |-> batch_num])
    /\ UNCHANGED << openrouter_key, files, all_documents, uploaded_files, batch_size,
                    batch_num, batch_reports, result, calls, final_report,
                    response >>

\* process_batch builds the prompt and enters call_openrouter(use_better_models=False)
EnterProcessBatch ==
    /\ pc = "batch_loop"
    /\ batch_num <= Len(batches)
    /\ caller' = "batch"
    /\ models' = ModelsFor(FALSE)
    /\ attempts' = <<>>
    /\ pc' = "call"
    /\ backend_response' = NoBackendResponse
    /\ prompt' = [NoPrompt EXCEPT !.batch_docs = BatchPromptDocs(batches[batch_num])]
    /\ invocations' = Append(invocations, [caller |-> "batch", batch |-> batch_num])
    /\ UNCHANGED << openrouter_key, files, all_documents, uploaded_files, batch_size,
                    batches, batch_num, batch_reports, result, calls, final_report,
                    response >>

\* an exception inside process_batch's try block: it returns None
ProcessBatchRaises ==
    /\ pc = "batch_loop"
    /\ batch_num <= Len(batches)
    /\ AfterBatch(None)
    /\ UNCHANGED << openrouter_key, files, prompt, invocations, backend_response, pc, all_documents, uploaded_files,
                    batch_size, batches, caller, models, attempts, result, calls,
                    final_report, response >>

\* process_batch returns what call_openrouter returned
BatchReturn ==
    /\ pc = "returned"
    /\ caller = "batch"
    /\ AfterBatch(result)
    /\ caller' = "none"
    /\ models' = <<>>
    /\ attempts' = <<>>
    /\ result' = None
    /\ pc' = "batch_loop"
    /\ backend_response' = NoBackendResponse
    /\ prompt' = NoPrompt
    /\ UNCHANGED << openrouter_key, files, invocations, all_documents, uploaded_files, batch_size,
                    batches, calls, final_report, response >>

(***************************************************************************)
(* call_openrouter                                                         *)
(***************************************************************************)
\* the loop walking the priority list from its end
TryModelReversed ==
    /\ pc = "call"
    /\ Len(attempts) < Len(models)
    /\ \E r \in Responses :
         LET model == models[Len(models) - Len(attempts)]
             o == OutcomeOf[r]
         IN  /\ attempts' = Append(attempts, [model |-> model, outcome |-> o])
             /\ calls' = calls + 1
             /\ backend_response' = r
             /\ IF o = "accepted"
                THEN /\ result' = Some(r.content)
                     /\ pc' = "returned"
                ELSE UNCHANGED << result, pc >>
    /\ UNCHANGED << openrouter_key, files, prompt, invocations, all_documents, uploaded_files, batch_size,
                    batches, batch_num, batch_reports, caller, models, final_report,
                    response >>

\* a loop that asks the same model again after an answer it does not accept
TryModelAgain ==
    /\ pc = "call"
    /\ Len(attempts) < Len(models)
    /\ \E r \in Responses :
         LET model == models[Len(attempts) + 1]
             o == OutcomeOf[r]
         IN  /\ calls' = calls + 1
             /\ backend_response' = r
             /\ IF o = "accepted"
                THEN /\ attempts' = Append(attempts, [model |-> model, outcome |-> o])
                     /\ result' = Some(r.content)
                     /\ pc' = "returned"
                ELSE UNCHANGED << attempts, result, pc >>
    /\ UNCHANGED << openrouter_key, files, prompt, invocations, all_documents, uploaded_files, batch_size,
                    batches, batch_num, batch_reports, caller, models, final_report,
                    response >>

\* one iteration of "for model in models": one requests.post and its handling
TryModel ==
    /\ pc = "call"
    /\ Len(attempts) < Len(models)
    /\ \E r \in Responses :
         LET model == models[Len(attempts) + 1]
             o == OutcomeOf[r]
         IN  /\ attempts' = Append(attempts, [model |-> model, outcome |-> o])
             /\ calls' = calls + 1
             /\ backend_response' = r
             /\ IF o = "accepted"
                THEN /\ result' = Some(r.content)
                     /\ pc' = "returned"
                ELSE UNCHANGED << result, pc >>
    /\ UNCHANGED << openrouter_key, files, prompt, invocations, all_documents, uploaded_files, batch_size,
                    batches, batch_num, batch_reports, caller, models, final_report,
                    response >>

\* giving up after the first model that did not deliver
AllModelsFailedEarly ==
    /\ pc = "call"
    /\ Len(attempts) >= 1
    /\ result' = Some(ERROR_MESSAGE)
    /\ pc' = "returned"
    /\ UNCHANGED << openrouter_key, files, prompt, invocations, backend_response, all_documents, uploaded_files, batch_size,
                    batches, batch_num, batch_reports, caller, models, attempts,
                    calls, final_report, response >>

\* the loop ended without a return: the error string is returned
AllModelsFailed ==
    /\ pc = "call"
    /\ Len(attempts) = Len(models)
    /\ result' = Some(ERROR_MESSAGE)
    /\ pc' = "returned"
    /\ UNCHANGED << openrouter_key, files, prompt, invocations, backend_response, all_documents, uploaded_files, batch_size,
                    batches, batch_num, batch_reports, caller, models, attempts,
                    calls, final_report, response >>

(***************************************************************************)
(* after the loop over batches: synthesize_reports and the response        *)
(***************************************************************************)
\* if not batch_reports: return 500
AllBatchesFailed ==
    /\ pc = "batch_loop"
    /\ batch_num > Len(batches)
    /\ batch_reports = <<>>
    /\ Finish(ErrorResponse(500, "All batches failed to process"))
    /\ UNCHANGED << openrouter_key, files, prompt, invocations, backend_response, all_documents, uploaded_files, batch_size,
                    batches, batch_num, batch_reports, caller, models, attempts,
                    result, calls, final_report >>

\* a synthesis that starts as soon as one batch report exists
EnterSynthesizeEarly ==
    /\ pc = "batch_loop"
    /\ batch_reports # <<>>
    /\ caller' = "synthesis"
    /\ models' = ModelsFor(TRUE)
    /\ attempts' = <<>>
    /\ pc' = "call"
    /\ backend_response' = NoBackendResponse
    /\ prompt' = [NoPrompt EXCEPT !.synthesis_content =
                      Truncate(SynthesisChars(batch_reports, uploaded_files))]
    /\ invocations' = Append(invocations, [caller |-> "synthesis", batch |-> 0])
    /\ UNCHANGED << openrouter_key, files, all_documents, uploaded_files, batch_size,
                    batches, batch_num, batch_reports, result, calls, final_report,
                    response >>

\* synthesize_reports builds the prompt and enters call_openrouter(use_better_models=True)
EnterSynthesize ==
    /\ pc = "batch_loop"
    /\ batch_num > Len(batches)
    /\ batch_reports # <<>>
    /\ caller' = "synthesis"
    /\ models' = ModelsFor(TRUE)
    /\ attempts' = <<>>
    /\ pc' = "call"
    /\ backend_response' = NoBackendResponse
    /\ prompt' = [NoPrompt EXCEPT !.synthesis_content =
                      Truncate(SynthesisChars(batch_reports, uploaded_files))]
    /\ invocations' = Append(invocations, [caller |-> "synthesis", batch |-> 0])
    /\ UNCHANGED << openrouter_key, files, all_documents, uploaded_files, batch_size,
                    batches, batch_num, batch_reports, result, calls, final_report,
                    response >>

\* return header + final_report
SynthesisReturn ==
    /\ pc = "returned"
    /\ caller = "synthesis"
    /\ final_report' = [header |-> Header(batch_reports, uploaded_files, TRUE),
                        body |-> result.text]
    /\ caller' = "none"
    /\ models' = <<>>
    /\ attempts' = <<>>
    /\ result' = None
    /\ pc' = "synthesized"
    /\ backend_response' = NoBackendResponse
    /\ prompt' = NoPrompt
    /\ UNCHANGED << openrouter_key, files, invocations, all_documents, uploaded_files, batch_size,
                    batches, batch_num, batch_reports, calls, response >>

\* a fallback that returns the combined batch reports without the header
SynthesisRaisesNoHeader ==
    /\ pc = "batch_loop"
    /\ batch_num > Len(batches)
    /\ batch_reports # <<>>
    /\ final_report' = [header |-> NoHeader, body |-> Combined(batch_reports)]
    /\ pc' = "synthesized"
    /\ UNCHANGED << openrouter_key, files, prompt, invocations, backend_response, all_documents, uploaded_files, batch_size,
                    batches, batch_num, batch_reports, caller, models, attempts,
                    result, calls, response >>

\* an exception inside synthesize_reports' try block: the except branch
\* returns the combined batch reports
SynthesisRaises ==
    /\ pc = "batch_loop"
    /\ batch_num > Len(batches)
    /\ batch_reports # <<>>
    /\ final_report' = [header |-> Header(batch_reports, uploaded_files, FALSE),
                        body |-> Combined(batch_reports)]
    /\ pc' = "synthesized"
    /\ UNCHANGED << openrouter_key, files, prompt, invocations, backend_response, all_documents, uploaded_files, batch_size,
                    batches, batch_num, batch_reports, caller, models, attempts,
                    result, calls, response >>

\* charts are generated and the JSON response is returned
Respond ==
    /\ pc = "synthesized"
    /\ Finish([status |-> 200, error |-> "", report |-> final_report,
               uploaded_files |-> uploaded_files,
               total_files |-> Len(uploaded_files),
               batches_processed |-> Len(batches)])
    /\ UNCHANGED << openrouter_key, files, prompt, invocations, backend_response, all_documents, uploaded_files, batch_size,
                    batches, batch_num, batch_reports, caller, models, attempts,
                    result, calls, final_report >>

Next ==
    \/ RejectNoKey
    \/ RejectNoFiles
    \/ ExtractFiles
    \/ RejectNoDocuments
    \/ CreateBatches
    \/ EnterProcessBatch
    \/ ProcessBatchRaises
    \/ TryModel
    \/ AllModelsFailed
    \/ BatchReturn
    \/ AllBatchesFailed
    \/ EnterSynthesize
    \/ SynthesisRaises
    \/ SynthesisReturn
    \/ Respond

Spec == Init /\ [][Next]_vars

\* the request runs on one thread that never stops by itself: a step that
\* can be taken is taken
FairSpec == Spec /\ WF_vars(Next)

(***************************************************************************)
(* create_batches on its own, for every list length and batch size         *)
(***************************************************************************)
Document(i) ==
    [filename |-> Name("", ToString(i), ".pdf"),
     content |-> Min(RawLength(i), MAX_CONTENT_PER_FILE)]

InitBatcher ==
    /\ openrouter_key = TRUE
    /\ files = <<>>
    /\ pc = "batcher"
    /\ \E L \in 0..MaxLen : all_documents = [i \in 1..L |-> Document(i)]
    /\ uploaded_files = <<>>
    /\ batch_size \in 1..MaxBatchSize
    /\ batches = <<>>
    /\ batch_num = 0
    /\ batch_reports = <<>>
    /\ caller = "none"
    /\ models = <<>>
    /\ attempts = <<>>
    /\ result = None
    /\ calls = 0
    /\ backend_response = NoBackendResponse
    /\ prompt = NoPrompt
    /\ invocations = <<>>
    /\ final_report = NoReport
    /\ response = NoResponse

BatcherCall ==
    /\ pc = "batcher"
    /\ batches' = create_batches(all_documents, batch_size)
    /\ pc' = "batched"
    /\ UNCHANGED << openrouter_key, files, prompt, invocations, backend_response, all_documents, uploaded_files, batch_size,
                    batch_num, batch_reports, caller, models, attempts, result,
                    calls, final_report, response >>

NextBatcher == BatcherCall

SpecBatcher == InitBatcher /\ [][NextBatcher]_vars

(***************************************************************************)
(* extract_all_files on its own, for every short upload of plain files and *)
(* archives                                                                *)
(***************************************************************************)
\* the names on which a read was attempted: file.read() of every named
\* upload and zip_ref.read() of every PDF entry of an archive that opened
RECURSIVE EntryReads(_)
EntryReads(entries) ==
    IF entries = <<>> THEN <<>>
    ELSE (IF SkipEntry(Head(entries)) THEN <<>> ELSE <<Head(entries).filename>>)
         \o EntryReads(Tail(entries))

RECURSIVE ReadsOf(_)
ReadsOf(fs) ==
    IF fs = <<>> THEN <<>>
    ELSE LET file == Head(fs)
         IN  (IF file.filename = EmptyName THEN <<>>
              ELSE IF EndsWith(file.filename, ".zip") /\ file.zip_ok
                   THEN <<file.filename>> \o EntryReads(file.entries)
                   ELSE <<file.filename>>)
             \o ReadsOf(Tail(fs))

InitExtract ==
    /\ openrouter_key = TRUE
    /\ \E n \in 0..MaxUploadLen :
          \E kinds \in [1..n -> FileKinds] :
              files = [i \in 1..n |-> FileOfKind(i, kinds[i])]
    /\ pc = "extractor"
    /\ all_documents = <<>>
    /\ uploaded_files = <<>>
    /\ batch_size = BATCH_SIZE
    /\ batches = <<>>
    /\ batch_num = 0
    /\ batch_reports = <<>>
    /\ caller = "none"
    /\ models = <<>>
    /\ attempts = <<>>
    /\ result = None
    /\ calls = 0
    /\ backend_response = NoBackendResponse
    /\ prompt = NoPrompt
    /\ invocations = <<>>
    /\ final_report = NoReport
    /\ response = NoResponse

ExtractorCall ==
    /\ pc = "extractor"
    /\ LET x == extract_all_files(files)
       IN  /\ all_documents' = x.docs
           /\ uploaded_files' = x.names
    /\ pc' = "extractor_returned"
    /\ UNCHANGED << openrouter_key, files, prompt, invocations, backend_response, batch_size, batches, batch_num,
                    batch_reports, caller, models, attempts, result, calls,
                    final_report, response >>

NextExtract == ExtractorCall

SpecExtract == InitExtract /\ [][NextExtract]_vars

(***************************************************************************)
(* Properties                                                              *)
(***************************************************************************)
CeilDiv(a, b) == (a + b - 1) \div b

RECURSIVE Flatten(_)
Flatten(ss) == IF ss = <<>> THEN <<>> ELSE Head(ss) \o Flatten(Tail(ss))

\* C1: create_batches returns ceil(L/B) batches, each of B documents except
\* the last, which has between 1 and B; the batches concatenated in order are
\* the original list; an empty list gives no batch.
BatchesPartition ==
    pc = "batched" =>
        LET L == Len(all_documents)
            B == batch_size
            n == Len(batches)
        IN  /\ n = CeilDiv(L, B)
            /\ \A k \in 1..n : k < n => Len(batches[k]) = B
            /\ n > 0 => Len(batches[n]) \in 1..B
            /\ Flatten(batches) = all_documents
            /\ L = 0 => batches = <<>>

\* 12 documents in batches of 5: three batches, the last of 2
BatchesPartitionWitness ==
    /\ pc = "batched"
    /\ Len(all_documents) = 12
    /\ batch_size = BATCH_SIZE
    /\ Len(batches) = 3
    /\ Len(batches[3]) = 2

NoDocumentsError == ErrorResponse(400, "Could not extract text from any files.")

AllBatchesFailedError == ErrorResponse(500, "All batches failed to process")

\* C2: when extraction yields zero documents, analyze answers with the
\* no-documents error, without any backend call: no batch is created, and
\* neither process_batch nor synthesize_reports is reached.
NoDocumentsFailsFast ==
    (pc # "start" /\ openrouter_key /\ files # <<>> /\ all_documents = <<>>) =>
        /\ pc \in {"extracted", "done"}
        /\ calls = 0
        /\ batches = <<>>
        /\ batch_num = 0
        /\ caller = "none"
        /\ final_report = NoReport
        /\ pc = "done" => response = NoDocumentsError

NoDocumentsWitness ==
    /\ pc = "done"
    /\ files # <<>>
    /\ uploaded_files # <<>>
    /\ all_documents = <<>>
    /\ response = NoDocumentsError

AttemptedModels == [i \in 1..Len(attempts) |-> attempts[i].model]

NoneAccepted == \A i \in 1..Len(attempts) : attempts[i].outcome # "accepted"

\* C3: when every backend of one call_openrouter call yields a backend
\* error, the call ends with the all-backends-exhausted outcome and every
\* backend of the priority list was attempted exactly once.
AllErrorsExhaust ==
    (pc = "returned" /\ \A i \in 1..Len(attempts) : attempts[i].outcome = "error") =>
        /\ result = Some(ERROR_MESSAGE)
        /\ AttemptedModels = models
        /\ \A m \in Range(models) :
               Cardinality({i \in 1..Len(attempts) : attempts[i].model = m}) = 1

AllErrorsWitness ==
    /\ pc = "returned"
    /\ caller = "batch"
    /\ Len(attempts) = 3
    /\ backend_response.status = 402
    /\ \A i \in 1..Len(attempts) : attempts[i].outcome = "error"
    /\ result = Some(ERROR_MESSAGE)

\* C4: the text call_openrouter returns as accepted never contains a
\* configured template phrase, in any case of letters, however many numeric
\* tokens and keywords it has.
NeverAcceptsTemplate ==
    /\ (pc = "returned" /\ ~NoneAccepted) =>
           /\ ~ContainsTemplate(result.text)
           /\ result.text \notin {TemplateRich, OnceRich}
    /\ (/\ pc \in {"call", "returned"}
        /\ attempts # <<>>
        /\ backend_response.choices
        /\ ContainsTemplate(backend_response.content)) =>
           /\ attempts[Len(attempts)].outcome = "rejected"
           /\ result # Some(backend_response.content)

\* a text with "here's a framework", 5 numeric tokens and 5 keywords was
\* rejected and the call moved on
NeverAcceptsTemplateWitness ==
    /\ pc = "call"
    /\ Len(attempts) = 1
    /\ backend_response.content = TemplateRich
    /\ Contains(backend_response.content, <<"here's", "a", "framework">>)
    /\ numbers_found(backend_response.content) = 5
    /\ analysis_count(backend_response.content) = 5
    /\ attempts[1].outcome = "rejected"

\* C5: in one call_openrouter call the backends are tried in priority order,
\* each at most once; an error and a rejection both move on to the next
\* backend; the call returns the text of the first backend whose response
\* passes the quality gate and calls no backend after it.
FirstAcceptedWins ==
    pc \in {"call", "returned"} =>
        /\ Len(attempts) <= Len(models)
        /\ \A i \in 1..Len(attempts) : attempts[i].model = models[i]
        /\ \A i, j \in 1..Len(attempts) : i # j => attempts[i].model # attempts[j].model
        /\ \A i \in 1..Len(attempts) :
               attempts[i].outcome = "accepted" => (i = Len(attempts) /\ pc = "returned")
        /\ (pc = "returned" /\ ~NoneAccepted) =>
               /\ result = Some(backend_response.content)
               /\ backend_response.status = 200
               /\ ~ContainsTemplate(result.text)
               /\ has_actual_content(result.text)
        /\ (pc = "returned" /\ NoneAccepted) =>
               /\ result = Some(ERROR_MESSAGE)
               /\ Len(attempts) = Len(models)
        /\ pc = "call" => result = None

\* the third backend delivers after an error and a rejection
FirstAcceptedWitness ==
    /\ pc = "returned"
    /\ Len(attempts) = 3
    /\ attempts[1].outcome = "error"
    /\ attempts[2].outcome = "rejected"
    /\ attempts[3].outcome = "accepted"
    /\ attempts[3].model = models[3]
    /\ backend_response.content = GoodB
    /\ result.text = GoodB

\* C6: when call_openrouter exhausts all backends for a batch, the batch is
\* not appended to the batch reports, and the loop moves on to the next batch.
ExhaustedBatchIsDropped ==
    [][(pc = "returned" /\ caller = "batch" /\ NoneAccepted) =>
           (batch_reports' = batch_reports /\ batch_num' = batch_num + 1)]_vars

\* C7: the batch reports handed to synthesize_reports are those of the
\* batches whose generation succeeded: none of them is the outcome of a call
\* that exhausted all backends.
SynthesisInputSucceeded ==
    caller = "synthesis" =>
        \A i \in 1..Len(batch_reports) :
            /\ batch_reports[i].report # ERROR_MESSAGE
            /\ has_actual_content(batch_reports[i].report)

\* C8 as claimed: the batch count of the report header is the number of
\* batches created.
HeaderStatesTotalBatches ==
    (pc = "done" /\ response.status = 200) =>
        response.report.header.batches = Len(batches)

\* C8: the batches_processed field of the response is the number of batches
\* created; the batch count of the report header is the number of batch
\* reports handed to synthesize_reports, which is at most that number.
BatchCounts ==
    (pc = "done" /\ response.status = 200) =>
        /\ response.batches_processed = Len(batches)
        /\ Len(batches) = CeilDiv(Len(all_documents), BATCH_SIZE)
        /\ response.report.header.batches = Len(batch_reports)
        /\ Len(batch_reports) <= Len(batches)

\* three batches were created and two contributed
BatchCountsWitness ==
    /\ pc = "done"
    /\ response.status = 200
    /\ response.batches_processed = 3
    /\ response.report.header.batches = 2

\* C9: when every batch fails, analyze answers with the all-batches-failed
\* error, makes no synthesis call and returns no report.
AllFailedIsAnError ==
    (/\ pc \in {"call", "returned", "synthesized", "done"}
     /\ batches # <<>>
     /\ batch_num > Len(batches)
     /\ \A i \in 1..Len(batch_reports) : batch_reports[i].report = ERROR_MESSAGE) =>
        /\ caller # "synthesis"
        /\ final_report = NoReport
        /\ pc = "done" => response = AllBatchesFailedError

\* the texts appear in body as separate runs, in this order, from position from
RECURSIVE InOrderFrom(_, _, _)
InOrderFrom(body, reports, from) ==
    IF reports = <<>> THEN TRUE
    ELSE LET t == Head(reports).report
         IN  \E i \in from..(Len(body) - Len(t)) :
                 /\ \A j \in 1..Len(t) : body[i + j] = t[j]
                 /\ InOrderFrom(body, Tail(reports), i + Len(t))

\* C10: when the synthesis call fails with at least one batch report at hand,
\* synthesize_reports returns a non-empty report that contains the text of
\* every batch report verbatim, in batch order.
FallbackContainsBatchReports ==
    (/\ pc \in {"synthesized", "done"}
     /\ final_report # NoReport
     /\ batch_reports # <<>>
     /\ (final_report.body = ERROR_MESSAGE \/ ~final_report.header.ai_synthesis)) =>
        /\ final_report.body # <<>>
        /\ InOrderFrom(final_report.body, batch_reports, 0)

\* C11: every report synthesize_reports returns, with the synthesis text as
\* its body or with the combined batch reports as its body, starts with the
\* header that states the number of uploaded file names, the number of batch
\* reports and the report type and focus; the response carries that report.
ReportHasHeader ==
    /\ (pc \in {"synthesized", "done"} /\ final_report # NoReport) =>
          /\ final_report.header.total_files = Len(uploaded_files)
          /\ final_report.header.batches = Len(batch_reports)
          /\ final_report.header.report_type = <<dd_type, report_focus>>
          /\ final_report.header # NoHeader
          /\ IF final_report.header.ai_synthesis
             THEN final_report.body \in Texts \cup {ERROR_MESSAGE}
             ELSE final_report.body = Combined(batch_reports)
    /\ pc = "synthesized" => final_report # NoReport
    /\ (pc = "done" /\ response.status = 200) =>
          /\ final_report # NoReport
          /\ response.report = final_report

\* a fallback report of two batch reports went out with its header
ReportHasHeaderWitness ==
    /\ pc = "done"
    /\ response.status = 200
    /\ ~response.report.header.ai_synthesis
    /\ response.report.header.batches = 2
    /\ response.report.header.total_files = 6
    /\ response.report.body = Combined(batch_reports)

\* the file names of the documents, in list order
DocumentNames == [i \in 1..Len(all_documents) |-> all_documents[i].filename]

\* C12: of an archive, an entry that is a folder or whose name does not end
\* in .pdf (in any case) is in neither all_documents nor uploaded_files, under
\* its path or under its base name; an archive of two readable PDFs and one
\* other entry yields exactly two documents and two uploaded names, which are
\* the base names of the two PDFs.
ZipKeepsOnlyPdfEntries ==
    pc = "extractor_returned" =>
        /\ \A i \in 1..Len(files) : \A j \in 1..Len(files[i].entries) :
              LET e == files[i].entries[j]
              IN  (e.is_dir \/ LowerToken(e.filename.ext) # ".pdf") =>
                      /\ e.filename \notin Range(uploaded_files) \cup Range(DocumentNames)
                      /\ Name("", e.filename.base, e.filename.ext)
                             \notin Range(uploaded_files) \cup Range(DocumentNames)
        /\ \A i \in 1..Len(files) :
              (Len(files) = 1 /\ files[i] = ZipOfTwo(i)) =>
                  /\ uploaded_files = << Name("", ToString(10 * i + 1), ".pdf"),
                                         Name("", ToString(10 * i + 3), ".PDF") >>
                  /\ DocumentNames = uploaded_files
                  /\ Len(all_documents) = 2

\* the archive of two PDFs and a text file was extracted
ZipKeepsOnlyPdfEntriesWitness ==
    /\ pc = "extractor_returned"
    /\ files = <<ZipOfTwo(1)>>
    /\ Len(all_documents) = 2
    /\ Len(uploaded_files) = 2

\* the number of times x occurs in s
Occurrences(x, s) == Cardinality({i \in 1..Len(s) : s[i] = x})

\* an upload that is not an archive
PlainFile(f) == f.filename # EmptyName /\ LowerToken(f.filename.ext) # ".zip"

\* the position of the document called name; 0 when there is none
PositionOf(name) ==
    IF name \in Range(DocumentNames)
    THEN CHOOSE k \in 1..Len(all_documents) : all_documents[k].filename = name
    ELSE 0

\* C13: an upload whose extraction raises or yields no text, and an archive
\* entry of that kind, is not among the documents and was read exactly once;
\* every other plain upload that has text is a document, once, with its text
\* cut to MAX_CONTENT_PER_FILE, and these documents stand in upload order;
\* every plain upload is listed in uploaded_files.
FailedFileIsLocal ==
    pc = "extractor_returned" =>
        /\ \A i \in 1..Len(files) :
              (PlainFile(files[i]) /\ files[i].pdf_text <= 0) =>
                  /\ files[i].filename \notin Range(DocumentNames)
                  /\ Occurrences(files[i].filename, ReadsOf(files)) = 1
        /\ \A i \in 1..Len(files) : \A j \in 1..Len(files[i].entries) :
              LET e == files[i].entries[j]
              IN  (/\ ~e.is_dir
                   /\ LowerToken(e.filename.ext) = ".pdf"
                   /\ (~e.readable \/ e.pdf_text <= 0)) =>
                      /\ Name("", e.filename.base, e.filename.ext) \notin Range(DocumentNames)
                      /\ Occurrences(e.filename, ReadsOf(files)) = 1
        /\ \A i \in 1..Len(files) :
              (PlainFile(files[i]) /\ files[i].pdf_text > 0) =>
                  /\ Occurrences(files[i].filename, DocumentNames) = 1
                  /\ Occurrences(files[i].filename, ReadsOf(files)) = 1
                  /\ all_documents[PositionOf(files[i].filename)].content
                         = Min(files[i].pdf_text, MAX_CONTENT_PER_FILE)
        /\ \A i, j \in 1..Len(files) :
              (/\ i < j
               /\ PlainFile(files[i]) /\ files[i].pdf_text > 0
               /\ PlainFile(files[j]) /\ files[j].pdf_text > 0) =>
                  PositionOf(files[i].filename) < PositionOf(files[j].filename)
        /\ \A i \in 1..Len(files) :
              PlainFile(files[i]) => Occurrences(files[i].filename, uploaded_files) = 1

\* the second of three uploads raised; the first and the third are documents
FailedFileIsLocalWitness ==
    /\ pc = "extractor_returned"
    /\ Len(files) = 3
    /\ files[2] = BadFile(2, "none")
    /\ files[1] = GoodFile(1)
    /\ files[3] = GoodFile(3)
    /\ DocumentNames = <<files[1].filename, files[3].filename>>
    /\ Len(uploaded_files) = 3

NoKeyError == ErrorResponse(500, "OpenRouter API key not configured.")

NoFilesError == ErrorResponse(400, "No files uploaded")

\* C14 as claimed: a request ends with a report or with one of the two
\* errors 'no documents extracted' and 'every batch failed'.
OnlyTwoErrors ==
    pc = "done" =>
        \/ response.status = 200 /\ response.report # NoReport
        \/ response \in {NoDocumentsError, AllBatchesFailedError}

\* C14: a request ends with an error in four conditions and with a report
\* otherwise: no key configured, no files uploaded, no document extracted,
\* no batch report collected; an error carries no report.
OnlyFourErrors ==
    pc = "done" =>
        /\ response = NoKeyError <=> ~openrouter_key
        /\ response = NoFilesError <=> (openrouter_key /\ files = <<>>)
        /\ response = NoDocumentsError <=>
              (openrouter_key /\ files # <<>> /\ all_documents = <<>>)
        /\ response = AllBatchesFailedError <=>
              (all_documents # <<>> /\ batch_reports = <<>>)
        /\ \/ response \in {NoKeyError, NoFilesError, NoDocumentsError, AllBatchesFailedError}
           \/ /\ response.status = 200
              /\ response.error = ""
              /\ response.report # NoReport
              /\ batch_reports # <<>>

\* files were uploaded and the request ended on the missing key
OnlyFourErrorsWitness ==
    /\ pc = "done"
    /\ response = NoKeyError
    /\ files # <<>>

\* the last requests.post returned status 200 with a generated text that has
\* no phrase of template_phrases and none of has_actual_content's phrases
ProperResponse ==
    /\ pc \in {"call", "returned"}
    /\ attempts # <<>>
    /\ ~backend_response.raised
    /\ backend_response.status = 200
    /\ backend_response.choices
    /\ ~ContainsTemplate(backend_response.content)
    /\ template_count(backend_response.content) = 0

\* C15: a status-200 response with a generated text that contains none of
\* the template phrases the code lists (in call_openrouter and in
\* has_actual_content) is accepted exactly when the text has at least 3
\* numeric, currency or date tokens and at least 5 distinct keywords; when it
\* is accepted the call returns that text.
GateThresholds ==
    ProperResponse =>
        LET content == backend_response.content
            last == attempts[Len(attempts)]
        IN  /\ last.outcome \in {"accepted", "rejected"}
            /\ last.outcome = "accepted" <=>
                  (numbers_found(content) >= 3 /\ analysis_count(content) >= 5)
            /\ numbers_found(content) < 3 => last.outcome = "rejected"
            /\ analysis_count(content) < 5 => last.outcome = "rejected"
            /\ last.outcome = "accepted" => (pc = "returned" /\ result = Some(content))

\* a text with exactly 3 numeric tokens and 5 keywords was accepted
GateThresholdsWitness ==
    /\ ProperResponse
    /\ numbers_found(backend_response.content) = 3
    /\ analysis_count(backend_response.content) = 5
    /\ attempts[Len(attempts)].outcome = "accepted"

\* the positions of the log that are calls of the synthesis
SynthesisInvocations == {i \in 1..Len(invocations) : invocations[i].caller = "synthesis"}

\* C16: the generation calls of a request are made for batches of strictly
\* increasing index, each while that batch is the current one and all batches
\* before it are finished; a backend is only called inside the call logged
\* last; the synthesis is called at most once, last, after every batch was
\* processed, and exactly once in a request that returns a synthesized
\* report; the batch reports are in strictly increasing batch-number order.
SequentialProcessing ==
    /\ \A i, j \in 1..Len(invocations) :
          (i < j /\ invocations[j].caller = "batch") =>
              /\ invocations[i].caller = "batch"
              /\ invocations[i].batch < invocations[j].batch
    /\ \A i \in 1..Len(invocations) :
          invocations[i].caller = "batch" =>
              /\ invocations[i].batch \in 1..Len(batches)
              /\ invocations[i].batch <= batch_num
              /\ i < Len(invocations) => invocations[i].batch < batch_num
    /\ pc \in {"call", "returned"} =>
          /\ invocations # <<>>
          /\ invocations[Len(invocations)].caller = caller
          /\ caller = "batch" => invocations[Len(invocations)].batch = batch_num
          /\ \A i \in 1..Len(batch_reports) : batch_reports[i].batch_number < batch_num
    /\ Cardinality(SynthesisInvocations) <= 1
    /\ SynthesisInvocations # {} =>
          /\ batch_num = Len(batches) + 1
          /\ batches # <<>>
    /\ (pc \in {"synthesized", "done"} /\ final_report.header.ai_synthesis) =>
          SynthesisInvocations = {Len(invocations)}
    /\ \A i, j \in 1..Len(batch_reports) :
          i < j => batch_reports[i].batch_number < batch_reports[j].batch_number

\* three batches were called in turn and then the synthesis
SequentialProcessingWitness ==
    /\ pc = "done"
    /\ Len(invocations) = 4
    /\ [i \in 1..3 |-> invocations[i].batch] = <<1, 2, 3>>
    /\ invocations[4].caller = "synthesis"
    /\ [i \in 1..3 |-> batch_reports[i].batch_number] = <<1, 2, 3>>

\* C17: the batch-report content in the synthesis prompt is never longer than
\* 35000 characters plus the 52 of the marker: a concatenation longer than
\* 35000 is cut to its first 35000 characters and gets the marker, any other
\* is passed whole and without the marker.
SynthesisContentCeiling ==
    (pc \in {"call", "returned"} /\ caller = "synthesis") =>
        LET n == SynthesisChars(batch_reports, uploaded_files)
            c == prompt.synthesis_content
        IN  /\ ContentChars(c) <= 35000 + 52
            /\ n > 35000 => (c.kept = 35000 /\ c.marker /\ ContentChars(c) = 35052)
            /\ n <= 35000 => (c.kept = n /\ ~c.marker /\ ContentChars(c) = n)

\* three batch reports were longer than the ceiling together and were cut
SynthesisContentCeilingWitness ==
    /\ pc = "call"
    /\ caller = "synthesis"
    /\ Len(batch_reports) = 3
    /\ SynthesisChars(batch_reports, uploaded_files) > 35000
    /\ prompt.synthesis_content = [kept |-> 35000, marker |-> TRUE]

\* every document has between 1 and 20000 characters of text
DocumentsCapped ==
    \A i \in 1..Len(all_documents) :
        /\ all_documents[i].content >= 1
        /\ all_documents[i].content <= 20000

\* the prompt of a batch holds cut copies of the documents of that batch
PromptHoldsCopies ==
    (pc = "call" /\ caller = "batch") =>
        /\ Len(prompt.batch_docs) = Len(batches[batch_num])
        /\ \A i \in 1..Len(prompt.batch_docs) :
              /\ prompt.batch_docs[i].filename = batches[batch_num][i].filename
              /\ prompt.batch_docs[i].content
                     = Min(batches[batch_num][i].content, 12000)

\* C18: every document extract_all_files produced has between 1 and
\* MAX_CONTENT_PER_FILE = 20000 characters of text; the batches hold these
\* documents; the prompt of a batch is built from cut copies, and from the
\* extraction on no step changes a document or a batch.
DocumentsStayCapped ==
    /\ [](DocumentsCapped /\ PromptHoldsCopies)
    /\ [](batches # <<>> => Flatten(batches) = all_documents)
    /\ [][pc # "start" => all_documents' = all_documents]_vars
    /\ [][batches # <<>> => batches' = batches]_vars

\* a document of 20000 characters, cut from a longer text, is in a prompt
\* with 12000 characters and is still whole in its batch
DocumentsStayCappedWitness ==
    /\ pc = "call"
    /\ caller = "batch"
    /\ \E i \in 1..Len(files) : files[i].pdf_text > 20000
    /\ \E i \in 1..Len(prompt.batch_docs) :
          /\ prompt.batch_docs[i].content = 12000
          /\ batches[batch_num][i].content = 20000
          /\ batches[batch_num][i] \in Range(all_documents)

\* the calls of the log made for batches
BatchInvocations == {i \in 1..Len(invocations) : invocations[i].caller = "batch"}

\* the backends asked so far, within the current call and within the request
BoundedCalls ==
    /\ Len(attempts) <= Len(models)
    /\ caller = "batch" => Len(attempts) <= 3
    /\ caller = "synthesis" => Len(attempts) <= 4
    /\ \A i, j \in 1..Len(attempts) : i # j => attempts[i].model # attempts[j].model
    /\ calls <= 3 * Cardinality(BatchInvocations) + 4 * Cardinality(SynthesisInvocations)
    /\ calls <= 3 * Len(batches) + 4

\* C19: every request ends with a response, whatever the backends answer; a
\* call asks every backend of its list at most once, at most 3 for a batch
\* and 4 for the synthesis, and a request with N batches asks at most
\* 3 * N + 4 backends.
RequestTerminates ==
    /\ []BoundedCalls
    /\ <>(pc = "done" /\ response # NoResponse)

\* three batches and the synthesis all ran out of backends: 13 calls
RequestTerminatesWitness ==
    /\ pc = "done"
    /\ response.status = 200
    /\ Len(batches) = 3
    /\ calls = 13

\* s can be had from t by leaving elements out
RECURSIVE IsSubsequence(_, _)
IsSubsequence(s, t) ==
    IF s = <<>> THEN TRUE
    ELSE IF t = <<>> THEN FALSE
    ELSE IF Head(s) = Head(t) THEN IsSubsequence(Tail(s), Tail(t))
    ELSE IsSubsequence(s, Tail(t))

\* the extraction of a named upload failed: a file without text, an archive
\* that did not open, an archive with a PDF entry that gave no text
FailedExtraction(f) ==
    /\ f.filename # EmptyName
    /\ IF LowerToken(f.filename.ext) = ".zip"
       THEN \/ ~f.zip_ok
            \/ \E j \in 1..Len(f.entries) :
                  /\ ~f.entries[j].is_dir
                  /\ LowerToken(f.entries[j].filename.ext) = ".pdf"
                  /\ (~f.entries[j].readable \/ f.entries[j].pdf_text <= 0)
       ELSE f.pdf_text <= 0

\* C20: after extract_all_files the document names are what is left of
\* uploaded_files when names are left out, so there are at most as many
\* documents as names, and as many only when the extraction of no file
\* failed; an upload without a filename is in neither list; total_files and
\* the file count of the report header are the number of uploaded names.
DocumentsAmongNames ==
    (pc # "start" /\ openrouter_key /\ files # <<>>) =>
        /\ IsSubsequence(DocumentNames, uploaded_files)
        /\ Len(all_documents) <= Len(uploaded_files)
        /\ Len(all_documents) = Len(uploaded_files) =>
              \A i \in 1..Len(files) : ~FailedExtraction(files[i])
        /\ EmptyName \notin Range(uploaded_files) \cup Range(DocumentNames)
        /\ (pc = "done" /\ response.status = 200) =>
              /\ response.total_files = Len(uploaded_files)
              /\ response.report.header.total_files = Len(uploaded_files)

====
